---- MODULE Spec2Model ----
(***************************************************************************)
(* eevee: a reader and validator of environment variables.                 *)
(*                                                                         *)
(* The model follows index.ts: the envelope V<T>, the evaluator ev, bind   *)
(* with its optional applier, the built-in transformers must, asISODate,   *)
(* asDuration, asInt, asBool and secret, and the composer pipe.  A lookup   *)
(* is one behaviour: Init draws the reader, the name, the transform and    *)
(* the applier; Call enters ev or the bound evaluator; Stage runs one      *)
(* transformer of the transform; Return and Throw end the lookup.          *)
(*                                                                         *)
(* JavaScript strings are sequences of one-character strings, JavaScript   *)
(* values are tagged records, and JavaScript numbers are kept exactly as   *)
(* pairs (hi, lo) in base 10^6, since a duration in milliseconds exceeds   *)
(* the integers of the model checker long before it exceeds 2^53.          *)
(***************************************************************************)
EXTENDS Integers, Sequences, FiniteSets, TLC

(***************************************************************************)
(* Bounds of the model.                                                    *)
(***************************************************************************)
\* longest string drawn from Alphabet as a variable's value
MaxLen == 3
\* most stages given to pipe
MaxStages == 2

(***************************************************************************)
(* Characters and strings.                                                 *)
(***************************************************************************)
Digits == {"0", "1", "2", "3", "4", "5", "6", "7", "8", "9"}

Units == {"s", "m", "h", "D", "M", "Y"}

\* the characters the bounded values are drawn from
Alphabet == {"0", "1", "s", "m", "h", "D", "M", "Y", "a", " "}

DigitVal(c) ==
  CASE c = "0" -> 0 [] c = "1" -> 1 [] c = "2" -> 2 [] c = "3" -> 3
    [] c = "4" -> 4 [] c = "5" -> 5 [] c = "6" -> 6 [] c = "7" -> 7
    [] c = "8" -> 8 [] c = "9" -> 9

DigitChar(n) ==
  CASE n = 0 -> "0" [] n = 1 -> "1" [] n = 2 -> "2" [] n = 3 -> "3"
    [] n = 4 -> "4" [] n = 5 -> "5" [] n = 6 -> "6" [] n = 7 -> "7"
    [] n = 8 -> "8" [] n = 9 -> "9"

\* String.prototype.toLowerCase, one character
LowerChar(c) ==
  CASE c = "A" -> "a" [] c = "D" -> "d" [] c = "E" -> "e" [] c = "F" -> "f"
    [] c = "L" -> "l" [] c = "M" -> "m" [] c = "N" -> "n" [] c = "O" -> "o"
    [] c = "R" -> "r" [] c = "S" -> "s" [] c = "T" -> "t" [] c = "U" -> "u"
    [] c = "Y" -> "y" [] c = "Z" -> "z"
    [] OTHER -> c

toLowerCase(s) == [i \in 1..Len(s) |-> LowerChar(s[i])]

\* s.slice(from, to) with 0-based, end-exclusive, already clamped indices
Slice(s, from, to) == IF to <= from THEN <<>> ELSE SubSeq(s, from + 1, to)

AllDigits(s) == \A i \in 1..Len(s) : s[i] \in Digits

RECURSIVE StrOfLen(_)
StrOfLen(n) ==
  IF n = 0 THEN {<<>>}
  ELSE {Append(s, c) : s \in StrOfLen(n - 1), c \in Alphabet}

BoundedStrings == UNION {StrOfLen(n) : n \in 0..MaxLen}

(***************************************************************************)
(* Numbers: a finite non-negative number is hi * 10^6 + lo, 0 <= lo < 10^6.*)
(***************************************************************************)
Base == 1000 * 1000

Num(hi, lo) == [nan |-> FALSE, hi |-> hi, lo |-> lo]

NaN == [nan |-> TRUE, hi |-> 0, lo |-> 0]

NumOfInt(n) == Num(n \div Base, n % Base)

NumAdd(a, b) ==
  IF a.nan \/ b.nan THEN NaN
  ELSE Num(a.hi + b.hi + ((a.lo + b.lo) \div Base), (a.lo + b.lo) % Base)

\* a * k for 0 <= k <= 1000: lo * k stays below 2^31
NumMulSmall(a, k) ==
  IF a.nan THEN NaN
  ELSE Num(a.hi * k + ((a.lo * k) \div Base), (a.lo * k) % Base)

NumIsZero(a) == ~a.nan /\ a.hi = 0 /\ a.lo = 0

(***************************************************************************)
(* JavaScript values, tagged by typeof (a Date is an object).              *)
(***************************************************************************)
JS(t, s, n, b, day, ms) ==
  [t |-> t, s |-> s, n |-> n, b |-> b, day |-> day, ms |-> ms]

Undefined == JS("undefined", <<>>, Num(0, 0), FALSE, 0, 0)

Str(s) == JS("string", s, Num(0, 0), FALSE, 0, 0)

Number(n) == JS("number", <<>>, n, FALSE, 0, 0)

Bool(b) == JS("boolean", <<>>, Num(0, 0), b, 0, 0)

\* a valid Date: day days after 1970-01-01 and ms milliseconds into that day
DateObj(day, ms) == JS("Date", <<>>, Num(0, 0), FALSE, day, ms)

\* ToBoolean: undefined, "", 0, NaN and false are falsy; an object is truthy
Truthy(x) ==
  CASE x.t = "undefined" -> FALSE
    [] x.t = "string" -> x.s # <<>>
    [] x.t = "number" -> ~x.n.nan /\ ~NumIsZero(x.n)
    [] x.t = "boolean" -> x.b
    [] x.t = "Date" -> TRUE

\* s[i] of a string with a 0-based index: undefined outside 0..length-1
CharAt(s, i) == IF i >= 0 /\ i < Len(s) THEN Str(<<s[i + 1]>>) ELSE Undefined

RECURSIVE DecValue(_)
DecValue(s) ==
  IF s = <<>> THEN 0
  ELSE 10 * DecValue(SubSeq(s, 1, Len(s) - 1)) + DigitVal(s[Len(s)])

RECURSIVE TrimLeft(_)
TrimLeft(s) == IF s # <<>> /\ s[1] = " " THEN TrimLeft(Tail(s)) ELSE s

RECURSIVE TrimRight(_)
TrimRight(s) ==
  IF s # <<>> /\ s[Len(s)] = " " THEN TrimRight(SubSeq(s, 1, Len(s) - 1)) ELSE s

\* Number(s) of a string: white space is trimmed, the empty string is 0, a
\* run of decimal digits is its value and any other text of the model is NaN
\* (no value of the model is a signed, fractional, exponent, radix-prefixed or
\* Infinity literal)
StrToNumber(s) ==
  LET t == TrimRight(TrimLeft(s))
  IN IF t = <<>> THEN Num(0, 0)
     ELSE IF AllDigits(t) THEN NumOfInt(DecValue(t))
     ELSE NaN

\* the time value of a Date: day * 24 * 60 * 60 * 1000 + ms
TimeValue(d) ==
  NumAdd(NumMulSmall(NumMulSmall(NumMulSmall(NumMulSmall(
           NumOfInt(d.day), 24), 60), 60), 1000),
         NumOfInt(d.ms))

\* Number(x) of any value of the model
ToNumber(x) ==
  CASE x.t = "undefined" -> NaN
    [] x.t = "string" -> StrToNumber(x.s)
    [] x.t = "number" -> x.n
    [] x.t = "boolean" -> IF x.b THEN Num(0, 1) ELSE Num(0, 0)
    [] x.t = "Date" -> TimeValue(x)

(***************************************************************************)
(* Date: new Date(x) and Date.prototype.toISOString.                       *)
(***************************************************************************)
\* days from 1970-01-01 to the civil date y-m-d (proleptic Gregorian); a day
\* past the end of the month runs into the next month, as MakeDay does
DaysFromCivil(y, m, d) ==
  LET yy == IF m <= 2 THEN y - 1 ELSE y
      era == yy \div 400
      yoe == yy - era * 400
      mp == IF m > 2 THEN m - 3 ELSE m + 9
      doy == ((153 * mp + 2) \div 5) + d - 1
      doe == yoe * 365 + (yoe \div 4) - (yoe \div 100) + doy
  IN era * 146097 + doe - 719468

\* the civil date <<y, m, d>> of a day number
CivilFromDays(z) ==
  LET zz == z + 719468
      era == zz \div 146097
      doe == zz - era * 146097
      yoe == (doe - (doe \div 1460) + (doe \div 36524) - (doe \div 146096)) \div 365
      doy == doe - (365 * yoe + (yoe \div 4) - (yoe \div 100))
      mp == (5 * doy + 2) \div 153
      d == doy - ((153 * mp + 2) \div 5) + 1
      m == IF mp < 10 THEN mp + 3 ELSE mp - 9
  IN <<IF m <= 2 THEN yoe + era * 400 + 1 ELSE yoe + era * 400, m, d>>

DaysInMonth(y, m) == DaysFromCivil(y, m + 1, 1) - DaysFromCivil(y, m, 1)

\* n in decimal, zero-padded to w digits
RECURSIVE Pad(_, _)
Pad(n, w) ==
  IF w = 0 THEN <<>> ELSE Append(Pad(n \div 10, w - 1), DigitChar(n % 10))

\* the internal date of new Date(x); valid = FALSE is an Invalid Date
Invalid == [valid |-> FALSE, day |-> 0, ms |-> 0]

Time(day, ms) == [valid |-> TRUE, day |-> day, ms |-> ms]

\* s has the shape YYYY-MM-DDTHH:mm:ss.sssZ
IsoShape(s) ==
  /\ Len(s) = 24
  /\ \A i \in {1, 2, 3, 4, 6, 7, 9, 10, 12, 13, 15, 16, 18, 19, 21, 22, 23} :
       s[i] \in Digits
  /\ s[5] = "-" /\ s[8] = "-" /\ s[11] = "T"
  /\ s[14] = ":" /\ s[17] = ":" /\ s[20] = "." /\ s[24] = "Z"

\* Date.parse of a string: the set of dates an engine may produce.  A string
\* of the ISO shape with every field in its range has one time value (a day
\* past the month's end either rolls over or is rejected, by engine); a field
\* out of range gives an Invalid Date, and so does the empty string; any other
\* string is parsed by engine-specific rules, to an Invalid Date or to some
\* date.
DateParse(s) ==
  IF s = <<>> THEN {Invalid}
  ELSE IF IsoShape(s)
  THEN LET y == DecValue(SubSeq(s, 1, 4))
           mo == DecValue(SubSeq(s, 6, 7))
           d == DecValue(SubSeq(s, 9, 10))
           h == DecValue(SubSeq(s, 12, 13))
           mi == DecValue(SubSeq(s, 15, 16))
           sec == DecValue(SubSeq(s, 18, 19))
           ms == DecValue(SubSeq(s, 21, 23))
           legal == /\ mo \in 1..12 /\ d \in 1..31 /\ mi \in 0..59 /\ sec \in 0..59
                    /\ \/ h \in 0..23
                       \/ h = 24 /\ mi = 0 /\ sec = 0 /\ ms = 0
           t == ((h * 60 + mi) * 60 + sec) * 1000 + ms
           day == DaysFromCivil(y, mo, d) + (IF h = 24 THEN 1 ELSE 0)
       IN IF ~legal THEN {Invalid}
          ELSE {Time(day, IF h = 24 THEN 0 ELSE t)}
                 \cup (IF d > DaysInMonth(y, mo) THEN {Invalid} ELSE {})
  ELSE {Invalid, Time(0, 0)}

\* new Date(x): the dates the constructor may produce for a value
NewDate(x) ==
  CASE x.t = "undefined" -> {Invalid}
    [] x.t = "string" -> DateParse(x.s)
    [] x.t = "number" -> IF x.n.nan THEN {Invalid} ELSE {Time(0, 0)}
    [] x.t = "boolean" -> {Time(0, IF x.b THEN 1 ELSE 0)}
    [] x.t = "Date" -> {Time(x.day, x.ms)}

\* date.toISOString() of a valid date of the years 0000 to 9999
toISOString(date) ==
  LET c == CivilFromDays(date.day)
      h == date.ms \div (60 * 60 * 1000)
      mi == (date.ms \div (60 * 1000)) % 60
      sec == (date.ms \div 1000) % 60
  IN Pad(c[1], 4) \o <<"-">> \o Pad(c[2], 2) \o <<"-">> \o Pad(c[3], 2)
       \o <<"T">> \o Pad(h, 2) \o <<":">> \o Pad(mi, 2) \o <<":">> \o Pad(sec, 2)
       \o <<".">> \o Pad(date.ms % 1000, 3) \o <<"Z">>

(***************************************************************************)
(* Envelopes, errors and the outcome of calling a transformer.             *)
(***************************************************************************)
\* V<T>
V(value, name, secret) == [value |-> value, name |-> name, secret |-> secret]

\* a thrown error: its constructor and the pieces of its message
Err(type, msg) == [type |-> type, msg |-> msg]

NoError == Err("none", <<>>)

NoEnvelope == V(Undefined, "", FALSE)

\* a transformer returned v
Ok(v) == [ok |-> TRUE, v |-> v, e |-> NoError]

\* a transformer threw e
Thrown(e) == [ok |-> FALSE, v |-> NoEnvelope, e |-> e]

(***************************************************************************)
(* value.match(/(\d+[smhDMY])+/)                                           *)
(***************************************************************************)
\* the 0-based index at which the run of digits starting at i ends
RECURSIVE DigitRunEnd(_, _)
DigitRunEnd(s, i) ==
  IF i < Len(s) /\ s[i + 1] \in Digits THEN DigitRunEnd(s, i + 1) ELSE i

\* the end of a \d+[smhDMY] token starting at i, or -1
TokenEnd(s, i) ==
  LET j == DigitRunEnd(s, i)
  IN IF j > i /\ j < Len(s) /\ s[j + 1] \in Units THEN j + 1 ELSE -1

\* the greedy repetition of the group from i: <<end, start of the last token>>
RECURSIVE Repeat(_, _, _)
Repeat(s, i, last) ==
  LET e == TokenEnd(s, i)
  IN IF e = -1 THEN <<i, last>> ELSE Repeat(s, e, i)

\* the match array <<whole match, last capture of group 1>> of the leftmost
\* match anywhere in s, or <<>> for null
RegexMatch(s) ==
  LET starts == {i \in 0..(Len(s) - 1) : TokenEnd(s, i) # -1}
  IN IF starts = {} THEN <<>>
     ELSE LET i0 == CHOOSE i \in starts : \A k \in starts : i <= k
              r == Repeat(s, i0, i0)
          IN <<Slice(s, i0, r[1]), Slice(s, r[2], r[1])>>

(***************************************************************************)
(* The built-in transformers.                                              *)
(***************************************************************************)
\* must with the flag dropped from the envelope it builds
mustClearsSecret(v) ==
  IF ~Truthy(v.value)
  THEN Thrown(Err("Error", <<v.name, " is not defined">>))
  ELSE Ok(V(v.value, v.name, FALSE))

\* must testing v.value === undefined in place of !v.value
mustOnlyUndefined(v) ==
  IF v.value.t = "undefined"
  THEN Thrown(Err("Error", <<v.name, " is not defined">>))
  ELSE Ok(V(v.value, v.name, v.secret))

must(v) ==
  IF ~Truthy(v.value)
  THEN Thrown(Err("Error", <<v.name, " is not defined">>))
  ELSE Ok(V(v.value, v.name, v.secret))

\* date is the Date that new Date(v.value) produced
asISODate(v, date) ==
  IF ~date.valid
  THEN Thrown(Err("RangeError", <<"Invalid time value">>))
  ELSE IF v.value.t # "string" \/ toISOString(date) # v.value.s
  THEN Thrown(Err("Error", <<v.name, " is not a valid date">>))
  ELSE Ok(V(DateObj(date.day, date.ms), v.name, v.secret))

\* the loop over match.slice(1): the duration, or the error of the switch
RECURSIVE DurationOf(_, _)
DurationOf(parts, duration) ==
  IF parts = <<>> THEN [ok |-> TRUE, n |-> duration, e |-> NoError]
  ELSE LET part == Head(parts)
           value == StrToNumber(Slice(part, 0, Len(part) - 1))
           unit == CharAt(part, -1)
           Times(k) == NumMulSmall(value, k)
       IN CASE unit = Str(<<"s">>) ->
                 DurationOf(Tail(parts), NumAdd(duration, NumMulSmall(value, 1000)))
            [] unit = Str(<<"m">>) ->
                 DurationOf(Tail(parts),
                   NumAdd(duration, NumMulSmall(Times(60), 1000)))
            [] unit = Str(<<"h">>) ->
                 DurationOf(Tail(parts),
                   NumAdd(duration, NumMulSmall(NumMulSmall(Times(60), 60), 1000)))
            [] unit = Str(<<"D">>) ->
                 DurationOf(Tail(parts),
                   NumAdd(duration,
                     NumMulSmall(NumMulSmall(NumMulSmall(Times(24), 60), 60), 1000)))
            [] unit = Str(<<"M">>) ->
                 DurationOf(Tail(parts),
                   NumAdd(duration,
                     NumMulSmall(NumMulSmall(NumMulSmall(
                       NumMulSmall(Times(30), 24), 60), 60), 1000)))
            [] unit = Str(<<"Y">>) ->
                 DurationOf(Tail(parts),
                   NumAdd(duration,
                     NumMulSmall(NumMulSmall(NumMulSmall(
                       NumMulSmall(Times(365), 24), 60), 60), 1000)))
            [] OTHER ->
                 [ok |-> FALSE, n |-> NaN,
                  e |-> Err("Error",
                          <<"Invalid unit encountered: ",
                            IF unit.t = "undefined" THEN "undefined" ELSE unit.s[1],
                            ". This is a bug, please report this.">>)]

\* d is the second argument, Undefined when the caller gives none
asDuration(v, d) ==
  LET defaultValue == IF d.t = "undefined" THEN Number(Num(0, 0)) ELSE d
  IN IF v.value.t = "undefined"
     THEN Ok(V(defaultValue, v.name, v.secret))
     ELSE IF v.value.t # "string"
     THEN Thrown(Err("TypeError", <<"v.value.match is not a function">>))
     ELSE LET match == RegexMatch(v.value.s)
          IN IF match = <<>>
             THEN Thrown(Err("Error", <<v.name, " is not a valid duration">>))
             ELSE LET r == DurationOf(Tail(match), Num(0, 0))
                  IN IF r.ok THEN Ok(V(Number(r.n), v.name, v.secret))
                     ELSE Thrown(r.e)

\* asInt falling back on the default for a value that is not a number
asIntDefaultsOnNaN(v, d) ==
  LET defaultValue == IF d.t = "undefined" THEN Number(Num(0, 0)) ELSE d
  IN IF v.value.t = "undefined" \/ ToNumber(v.value).nan
     THEN Ok(V(defaultValue, v.name, v.secret))
     ELSE Ok(V(Number(ToNumber(v.value)), v.name, v.secret))

asInt(v, d) ==
  LET defaultValue == IF d.t = "undefined" THEN Number(Num(0, 0)) ELSE d
  IN IF v.value.t = "undefined"
     THEN Ok(V(defaultValue, v.name, v.secret))
     ELSE LET intValue == ToNumber(v.value)
          IN IF intValue.nan
             THEN Thrown(Err("Error", <<v.name, " is not a number">>))
             ELSE Ok(V(Number(intValue), v.name, v.secret))

Yes == {<<"y", "e", "s">>, <<"t", "r", "u", "e">>, <<"o", "n">>, <<"1">>}

No == {<<"n", "o">>, <<"f", "a", "l", "s", "e">>, <<"o", "f", "f">>, <<"0">>}

\* asBool comparing the value as it is written
asBoolCaseSensitive(v, d) ==
  LET defaultValue == IF d.t = "undefined" THEN Bool(FALSE) ELSE d
  IN IF v.value.t = "undefined"
     THEN Ok(V(defaultValue, v.name, v.secret))
     ELSE IF v.value.t # "string"
     THEN Thrown(Err("TypeError", <<"v.value.toLowerCase is not a function">>))
     ELSE IF v.value.s \in Yes
     THEN Ok(V(Bool(TRUE), v.name, v.secret))
     ELSE IF v.value.s \in No
     THEN Ok(V(Bool(FALSE), v.name, v.secret))
     ELSE Thrown(Err("Error", <<v.name, " is not a valid boolean value.">>))

asBool(v, d) ==
  LET defaultValue == IF d.t = "undefined" THEN Bool(FALSE) ELSE d
  IN IF v.value.t = "undefined"
     THEN Ok(V(defaultValue, v.name, v.secret))
     ELSE IF v.value.t # "string"
     THEN Thrown(Err("TypeError", <<"v.value.toLowerCase is not a function">>))
     ELSE IF toLowerCase(v.value.s) \in Yes
     THEN Ok(V(Bool(TRUE), v.name, v.secret))
     ELSE IF toLowerCase(v.value.s) \in No
     THEN Ok(V(Bool(FALSE), v.name, v.secret))
     ELSE Thrown(Err("Error", <<v.name, " is not a valid boolean value.">>))

secret(v) == Ok(V(v.value, v.name, TRUE))

(***************************************************************************)
(* Transforms.  A stage is a built-in transformer, with the default it is  *)
(* called with (Undefined when it is passed to pipe or ev as it is).  A    *)
(* transform is absent, one transformer, or pipe(...ts).                   *)
(***************************************************************************)
Stage(f, d) == [f |-> f, d |-> d]

Absent == [kind |-> "absent", ts |-> <<>>]

Fn(s) == [kind |-> "fn", ts |-> <<s>>]

\* pipe(...ts): the transformer that threads an envelope through ts
pipe(ts) == [kind |-> "pipe", ts |-> ts]

\* the outcomes t(v) may have for the transformer t of a stage
Invoke(t, v) ==
  CASE t.f = "must" -> {must(v)}
    [] t.f = "asISODate" -> {asISODate(v, date) : date \in NewDate(v.value)}
    [] t.f = "asDuration" -> {asDuration(v, t.d)}
    [] t.f = "asInt" -> {asInt(v, t.d)}
    [] t.f = "asBool" -> {asBool(v, t.d)}
    [] t.f = "secret" -> {secret(v)}

\* pipe's loop running over ts from its end
pipeTurnReversed(ts, i, value) ==
  {[stage |-> ts[Len(ts) - i], in |-> value, out |-> o] :
     o \in Invoke(ts[Len(ts) - i], value)}

\* one turn of pipe's loop, after i stages: the stage called, the envelope it
\* is given and one outcome it may have
pipeTurn(ts, i, value) ==
  {[stage |-> ts[i + 1], in |-> value, out |-> o] : o \in Invoke(ts[i + 1], value)}

(***************************************************************************)
(* Readers, ev, appliers and bind.                                         *)
(***************************************************************************)
\* a source holding val under key: a plain record (kind "map"), or a reader
\* function over such a record that marks what it yields with secret
Source(kind, key, val, sec) == [kind |-> kind, key |-> key, val |-> val, secret |-> sec]

\* r[name] of the record behind a source
Lookup(r, nm) == IF nm = r.key THEN r.val ELSE Undefined

\* r(name) of a reader function: it yields the value under name, named name
\* and marked with the reader's secret
Reader(r, nm) == V(Lookup(r, nm), nm, r.secret)

\* ev building the envelope itself for a reader function too
evReadAlwaysWraps(r, nm) == V(Lookup(r, nm), nm, FALSE)

\* the first half of ev: the raw envelope of name
evRead(r, nm) ==
  IF r.kind = "fn"
  THEN Reader(r, nm)
  ELSE V(Lookup(r, nm), nm, FALSE)

\* what an applied transform is: the transform and the applier wrapped around it
Applied(t, by) == [kind |-> t.kind, ts |-> t.ts, by |-> by]

\* bind handing the transform to ev without the applier
bindForgetsApplier(applier, transform) ==
  [applierArgs |-> <<>>, t |-> Applied(transform, "none")]

\* the call of the bound evaluator: the arguments the applier is called with
\* and the transform handed to ev
bind(applier, transform) ==
  IF applier # "none" /\ transform.kind # "absent"
  THEN [applierArgs |-> <<transform>>, t |-> Applied(transform, applier)]
  ELSE IF transform.kind # "absent"
  THEN [applierArgs |-> <<>>, t |-> Applied(transform, "none")]
  ELSE [applierArgs |-> <<>>, t |-> Applied(Absent, "none")]

\* what consoleLoggerApplier's wrapper writes when the transform threw e
LogError(nm, e) ==
  [level |-> "error", name |-> nm, e |-> e, shown |-> Undefined]

\* what consoleLoggerApplier's wrapper writes when the transform returned result
LogResult(nm, res) ==
  [level |-> "log", name |-> nm, e |-> NoError,
   shown |-> IF res.secret
             THEN Str(<<"*", "*", "*", "*", "*", "*", "*", "*">>)
             ELSE res.value]

VARIABLES
  source,       \* the reader or record given to ev or bind
  applier,      \* the applier given to bind: "none" or "consoleLogger"
  entry,        \* the lookup is ev(...) or a call of bind(...)'s evaluator
  name,         \* the name looked up
  transform,    \* the transform the caller supplies
  pc,           \* "start", "pipe" (inside the transform), "returned", "thrown"
  applierCalls, \* the arguments of the calls of the applier so far
  applied,      \* the transform ev was called with
  raw,          \* the raw envelope ev built
  value,        \* the envelope threaded through the transform
  i,            \* the number of stages of the transform that returned
  calls,        \* the transformer calls so far: stage, envelope given, outcome
  result,       \* the value returned to the caller
  error,        \* the error thrown to the caller
  console       \* what the logging applier wrote

vars == <<source, applier, entry, name, transform, pc, applierCalls, applied,
          raw, value, i, calls, result, error, console>>

inputs == <<source, applier, entry, name, transform>>

(***************************************************************************)
(* The inputs of a lookup.                                                 *)
(***************************************************************************)
Names == {"P", "K"}

Iso == <<"2", "0", "2", "0", "-", "0", "1", "-", "0", "1", "T",
         "0", "0", ":", "0", "0", ":", "0", "0", ".", "0", "0", "0", "Z">>

IsoFeb30 == <<"2", "0", "2", "0", "-", "0", "2", "-", "3", "0", "T",
              "0", "0", ":", "0", "0", ":", "0", "0", ".", "0", "0", "0", "Z">>

\* strings named by the documentation and the cases around them
Examples ==
  { <<"v">>, <<"4", "2">>, <<"1", "0">>,
    <<"n", "o", "t", "-", "a", "-", "n", "u", "m", "b", "e", "r">>,
    <<"9", "0", "s">>, <<"1", "D">>, <<"1", "h", "3", "0", "m">>,
    <<"a", "b", "c", "5", "s">>, <<"5", "s", "x", "y", "z">>,
    <<"y", "e", "s">>, <<"T", "R", "U", "E">>, <<"O", "n">>,
    <<"n", "o">>, <<"F", "a", "l", "s", "e">>, <<"O", "F", "F">>,
    <<"Y", "e", "s", " ">>,
    Iso, IsoFeb30,
    <<"2", "0", "2", "0", "-", "0", "1", "-", "0", "1">> }

\* the values of a variable when one transformer is examined
CoerceValues == {Undefined} \cup {Str(s) : s \in BoundedStrings \cup Examples}

\* the values of a variable when a pipeline is examined
PipeValues ==
  {Undefined} \cup
  {Str(s) : s \in {<<>>, <<"1">>, <<"1", "0">>, <<"9", "0", "s">>,
                   <<"O", "n">>, <<"v">>, Iso}}

\* the built-in transformers as they are passed to pipe
BuiltIns ==
  {Stage(f, Undefined) :
     f \in {"must", "asISODate", "asDuration", "asInt", "asBool", "secret"}}

\* the built-in transformers, and the ones with a default called with one
BuiltInsWithDefault ==
  BuiltIns \cup {Stage("asDuration", Number(Num(0, 5000))),
                 Stage("asInt", Number(Num(0, 7))),
                 Stage("asBool", Bool(TRUE))}

Pipelines == UNION {[1..n -> BuiltIns] : n \in 0..MaxStages}

Sources(values) ==
  {Source(k[1], key, val, k[2]) :
     k \in {<<"map", FALSE>>, <<"fn", FALSE>>, <<"fn", TRUE>>},
     key \in Names, val \in values}

InitWith(src, ap, en, nm, tr) ==
  /\ source = src /\ applier = ap /\ entry = en /\ name = nm /\ transform = tr
  /\ pc = "start"
  /\ applierCalls = <<>>
  /\ applied = Applied(Absent, "none")
  /\ raw = NoEnvelope
  /\ value = NoEnvelope
  /\ i = 0
  /\ calls = <<>>
  /\ result = Undefined
  /\ error = NoError
  /\ console = <<>>

\* a lookup through a pipeline, from ev or from a bound evaluator
InitPipeline ==
  \E src \in Sources(PipeValues), nm \in Names,
     tr \in {Absent} \cup {Fn(s) : s \in BuiltIns} \cup {pipe(ts) : ts \in Pipelines},
     en \in {<<"ev", "none">>, <<"bound", "none">>, <<"bound", "consoleLogger">>} :
    /\ en[1] = "bound" => src.kind = "fn"
    /\ InitWith(src, en[2], en[1], nm, tr)

\* a lookup with ev through one transformer, over every bounded string
InitCoerce ==
  \E val \in CoerceValues, nm \in Names, s \in BuiltInsWithDefault :
    InitWith(Source("map", nm, val, FALSE), "none", "ev", nm, Fn(s))

Init == InitPipeline \/ InitCoerce

(***************************************************************************)
(* The steps of a lookup.                                                  *)
(***************************************************************************)
\* ev(r, name, t) or bound(name, transform), up to the call of the transform:
\* bind calls the applier, ev reads the raw envelope and, with no transform,
\* returns its value
Call ==
  /\ pc = "start"
  /\ LET b == IF entry = "bound" THEN bind(applier, transform)
              ELSE [applierArgs |-> <<>>, t |-> Applied(transform, "none")]
         v == evRead(source, name)
     IN /\ applierCalls' = b.applierArgs
        /\ applied' = b.t
        /\ raw' = v
        /\ IF b.t.kind = "absent"
           THEN pc' = "returned" /\ result' = v.value /\ value' = value
           ELSE pc' = "pipe" /\ value' = v /\ result' = result
  /\ UNCHANGED <<inputs, i, calls, error, console>>

\* the next transformer of the transform is called and returns (a transformer
\* passed as it is runs as the only stage)
Step ==
  /\ pc = "pipe" /\ i < Len(applied.ts)
  /\ \E c \in pipeTurn(applied.ts, i, value) :
       /\ c.out.ok
       /\ calls' = Append(calls, c)
       /\ value' = c.out.v
       /\ i' = i + 1
  /\ UNCHANGED <<inputs, pc, applierCalls, applied, raw, result, error, console>>

\* the next transformer is called and throws: the error leaves pipe, passes
\* the applier's wrapper, which logs and rethrows it, and leaves ev
Throw ==
  /\ pc = "pipe" /\ i < Len(applied.ts)
  /\ \E c \in pipeTurn(applied.ts, i, value) :
       /\ ~c.out.ok
       /\ calls' = Append(calls, c)
       /\ error' = c.out.e
       /\ console' = IF applied.by = "consoleLogger"
                     THEN Append(console, LogError(raw.name, c.out.e))
                     ELSE console
  /\ pc' = "thrown"
  /\ UNCHANGED <<inputs, applierCalls, applied, raw, value, i, result>>

\* every stage returned: the applier's wrapper logs the result and ev returns
\* its value
Return ==
  /\ pc = "pipe" /\ i = Len(applied.ts)
  /\ result' = value.value
  /\ console' = IF applied.by = "consoleLogger"
                THEN Append(console, LogResult(raw.name, value))
                ELSE console
  /\ pc' = "returned"
  /\ UNCHANGED <<inputs, applierCalls, applied, raw, value, i, calls, error>>

Next == Call \/ Step \/ Throw \/ Return

Spec == Init /\ [][Next]_vars

(***************************************************************************)
(* Properties.                                                             *)
(***************************************************************************)
MustS == Stage("must", Undefined)

AsIntS == Stage("asInt", Undefined)

SecretS == Stage("secret", Undefined)

\* the envelope the k-th transformer call of the lookup must be given
Given(k) == IF k = 1 THEN raw ELSE calls[k - 1].out.v

\* C1: the stages of pipe(t0, ..., tn) are called in the given order, each at
\* most once, each with the envelope the stage before it returned; when a
\* stage throws, the lookup throws that error and no later stage is called
\* (pipe(must, asInt) on an undefined value throws must's error after one
\* call).
PipeInOrder ==
  (pc # "start" /\ transform.kind = "pipe") =>
    /\ Len(calls) <= Len(transform.ts)
    /\ \A k \in 1..Len(calls) :
         /\ calls[k].stage = transform.ts[k]
         /\ calls[k].in = Given(k)
         /\ k < Len(calls) => calls[k].out.ok
    /\ pc = "pipe" => /\ Len(calls) = i
                      /\ \A k \in 1..Len(calls) : calls[k].out.ok
    /\ pc = "returned" => /\ Len(calls) = Len(transform.ts)
                          /\ \A k \in 1..Len(calls) : calls[k].out.ok
                          /\ value = Given(Len(calls) + 1)
    /\ pc = "thrown" => /\ calls # <<>>
                        /\ ~calls[Len(calls)].out.ok
                        /\ error = calls[Len(calls)].out.e
    /\ (pc = "thrown" /\ transform.ts = <<MustS, AsIntS>> /\ raw.value = Undefined) =>
         /\ Len(calls) = 1
         /\ error = Err("Error", <<name, " is not defined">>)

\* pipe(must, asInt) threw on an undefined value
PipeInOrderWitness ==
  /\ pc = "thrown" /\ transform = pipe(<<MustS, AsIntS>>)
  /\ raw.value = Undefined /\ Len(calls) = 1

\* C2: a call of the bound evaluator with a transform calls the applier
\* once, with the whole transform, and ev applies the transformer the applier
\* returned; a call with no transform never calls the applier and returns the
\* raw value.
BindAppliesOnce ==
  (pc # "start" /\ entry = "bound" /\ applier # "none") =>
    IF transform.kind # "absent"
    THEN /\ applierCalls = <<transform>>
         /\ applied = Applied(transform, applier)
         /\ pc \in {"returned", "thrown"} =>
              /\ Len(console) = 1
              /\ console[1].name = name
    ELSE /\ applierCalls = <<>>
         /\ pc = "returned"
         /\ calls = <<>>
         /\ console = <<>>
         /\ result = Reader(source, name).value

\* a bound lookup through a two-stage pipe ended with one call of the applier
BindAppliesOnceWitness ==
  /\ entry = "bound" /\ applier = "consoleLogger" /\ pc = "returned"
  /\ transform.kind = "pipe" /\ Len(calls) = 2
  /\ applierCalls = <<transform>>

\* the outcomes of threading v through ts
RECURSIVE Compose(_, _)
Compose(ts, v) ==
  IF ts = <<>> THEN {Ok(v)}
  ELSE UNION {IF o.ok THEN Compose(Tail(ts), o.v) ELSE {o} : o \in Invoke(Head(ts), v)}

\* C6: a pipeline of built-ins that completes keeps the name, and its
\* secret flag is true exactly when the input's was or secret is a stage; no
\* stage clears a flag that is true, and secret twice is secret once.
PipelineKeepsNameAndSecret ==
  /\ \A k \in 1..Len(calls) :
       calls[k].out.ok =>
         /\ calls[k].out.v.name = calls[k].in.name
         /\ calls[k].in.secret => calls[k].out.v.secret
  /\ (pc = "returned" /\ transform.kind # "absent") =>
       /\ value.name = raw.name
       /\ value.secret = (raw.secret \/ \E k \in 1..Len(transform.ts) :
                                          transform.ts[k].f = "secret")
       /\ transform.ts = <<SecretS, SecretS>> => value = V(raw.value, raw.name, TRUE)

\* secret then another stage: the flag set by the first is still set
PipelineKeepsNameAndSecretWitness ==
  /\ pc = "returned" /\ transform.kind = "pipe" /\ Len(transform.ts) = 2
  /\ transform.ts[1] = SecretS /\ transform.ts[2] # SecretS
  /\ ~raw.secret /\ value.secret /\ value.name = name

\* C7: ev builds the raw envelope by calling a callable source with the
\* name and from source[name] otherwise; with no transform it returns the raw
\* value, with one the value of transform(raw), and an error of the transform
\* reaches the caller as thrown.
EvContract ==
  (pc # "start" /\ entry = "ev") =>
    /\ raw = IF source.kind = "fn" THEN Reader(source, name)
             ELSE V(IF name = source.key THEN source.val ELSE Undefined, name, FALSE)
    /\ (pc = "returned" /\ transform.kind = "absent") =>
         /\ result = raw.value
         /\ (source.kind = "map" /\ name = source.key) => result = source.val
         /\ (source.kind = "map" /\ name # source.key) => result = Undefined
    /\ (pc = "returned" /\ transform.kind # "absent") =>
         result \in {o.v.value : o \in {x \in Compose(transform.ts, raw) : x.ok}}
    /\ pc = "thrown" =>
         error \in {o.e : o \in {x \in Compose(transform.ts, raw) : ~x.ok}}

\* ev on a reader function that marks its values secret, through a transform
EvContractWitness ==
  /\ entry = "ev" /\ pc = "returned" /\ source.kind = "fn" /\ source.secret
  /\ transform.kind # "absent" /\ transform.ts # <<>> /\ raw.value = Str(<<"v">>)

\* the transformer calls of the lookup made to f with a string or undefined
CallsOf(f) ==
  {k \in 1..Len(calls) :
     calls[k].stage.f = f /\ calls[k].in.value.t \in {"undefined", "string"}}

\* a number of milliseconds times a count of at most 2000
NumTimes(a, k) == Num(a.hi * k + ((a.lo * k) \div Base), (a.lo * k) % Base)

\* the milliseconds of a unit
UnitMs(u) ==
  CASE u = "s" -> NumOfInt(1000)
    [] u = "m" -> NumOfInt(60000)
    [] u = "h" -> NumOfInt(3600000)
    [] u = "D" -> NumOfInt(86400000)
    [] u = "M" -> NumTimes(NumOfInt(86400000), 30)
    [] u = "Y" -> NumTimes(NumOfInt(86400000), 365)

\* s from the 0-based index k on is a sequence of <integer><unit> tokens
RECURSIVE IsTokens(_, _)
IsTokens(s, k) ==
  LET e == TokenEnd(s, k)
  IN e # -1 /\ (e = Len(s) \/ IsTokens(s, e))

\* the sum of integer x unit over the tokens of s from k on
RECURSIVE TokenSum(_, _)
TokenSum(s, k) ==
  IF k >= Len(s) THEN Num(0, 0)
  ELSE LET e == TokenEnd(s, k)
       IN NumAdd(NumTimes(UnitMs(s[e]), DecValue(Slice(s, k, e - 1))),
                 TokenSum(s, e))

\* the default a stage falls back on
DefaultOf(st, unset) == IF st.d = Undefined THEN unset ELSE st.d

\* C3: asDuration returns the default for an undefined value and, for a
\* value that is a sequence of <integer><unit> tokens, the sum of integer x
\* unit in milliseconds ("90s" is 90000, "1D" 86400000, "1h30m" 5400000).
DurationIsTokenSum ==
  \A k \in CallsOf("asDuration") :
    LET c == calls[k]
    IN /\ c.in.value = Undefined =>
            c.out.ok /\ c.out.v.value = DefaultOf(c.stage, Number(Num(0, 0)))
       /\ (c.in.value.t = "string" /\ IsTokens(c.in.value.s, 0)) =>
            c.out.ok /\ c.out.v.value = Number(TokenSum(c.in.value.s, 0))
       /\ c.in.value = Str(<<"9", "0", "s">>) =>
            c.out.ok /\ c.out.v.value = Number(Num(0, 90000))
       /\ c.in.value = Str(<<"1", "D">>) =>
            c.out.ok /\ c.out.v.value = Number(Num(86, 400000))
       /\ c.in.value = Str(<<"1", "h", "3", "0", "m">>) =>
            c.out.ok /\ c.out.v.value = Number(Num(5, 400000))

\* C4: asDuration throws "<name> is not a valid duration" for every defined
\* value that is not, as a whole, a sequence of <integer><unit> tokens, and
\* returns no number for it.
DurationRejectsOtherText ==
  \A k \in CallsOf("asDuration") :
    LET c == calls[k]
    IN (c.in.value.t = "string" /\ ~IsTokens(c.in.value.s, 0)) =>
         /\ ~c.out.ok
         /\ c.out.e = Err("Error", <<c.in.name, " is not a valid duration">>)

\* C5: every error a built-in coercion throws names the envelope's name.
ErrorsNameTheKey ==
  \A k \in 1..Len(calls) :
    LET c == calls[k]
    IN (/\ ~c.out.ok
        /\ c.stage.f \in {"must", "asISODate", "asDuration", "asInt", "asBool"}
        /\ c.in.value.t = "string" \/ (c.in.value = Undefined /\ c.stage.f # "asISODate"))
       => \E j \in 1..Len(c.out.e.msg) : c.out.e.msg[j] = c.in.name

\* C8: asInt returns the default exactly when the value is undefined; a
\* defined value gives its numeric parse ("42" is 42, "" is 0) or the error
\* "<name> is not a number", never the default in place of the parse.
AsIntContract ==
  \A k \in CallsOf("asInt") :
    LET c == calls[k]
        n == StrToNumber(c.in.value.s)
    IN /\ c.in.value = Undefined =>
            c.out.ok /\ c.out.v.value = DefaultOf(c.stage, Number(Num(0, 0)))
       /\ (c.in.value.t = "string" /\ n.nan) =>
            ~c.out.ok /\ c.out.e = Err("Error", <<c.in.name, " is not a number">>)
       /\ (c.in.value.t = "string" /\ ~n.nan) =>
            c.out.ok /\ c.out.v.value = Number(n)
       /\ c.in.value = Str(<<"4", "2">>) => c.out.v.value = Number(Num(0, 42))
       /\ c.in.value = Str(<<>>) => c.out.v.value = Number(Num(0, 0))
       /\ c.in.value = Str(<<"n", "o", "t", "-", "a", "-", "n", "u", "m", "b", "e", "r">>)
            => ~c.out.ok

\* asInt called with the default 7 on the empty string returned 0
AsIntContractWitness ==
  /\ pc = "returned" /\ transform = Fn(Stage("asInt", Number(Num(0, 7))))
  /\ raw.value = Str(<<>>) /\ result = Number(Num(0, 0))

\* C9: must throws "<name> is not defined" exactly when the value is
\* undefined or the empty string, and returns every other string unchanged.
MustContract ==
  \A k \in CallsOf("must") :
    LET c == calls[k]
    IN IF c.in.value = Undefined \/ c.in.value = Str(<<>>)
       THEN ~c.out.ok /\ c.out.e = Err("Error", <<c.in.name, " is not defined">>)
       ELSE c.out.ok /\ c.out.v.value = c.in.value

\* must threw on the empty string
MustContractWitness ==
  /\ pc = "thrown" /\ transform = Fn(MustS) /\ raw.value = Str(<<>>)
  /\ error = Err("Error", <<name, " is not defined">>)

\* C10: asBool returns the default for an undefined value; a defined value,
\* compared without case, gives true for yes, true, on, 1, false for no,
\* false, off, 0, and the error "<name> is not a valid boolean value." for
\* anything else, the empty string included; never the default.
AsBoolContract ==
  \A k \in CallsOf("asBool") :
    LET c == calls[k]
        low == toLowerCase(c.in.value.s)
    IN /\ c.in.value = Undefined =>
            c.out.ok /\ c.out.v.value = DefaultOf(c.stage, Bool(FALSE))
       /\ (c.in.value.t = "string" /\ low \in Yes) =>
            c.out.ok /\ c.out.v.value = Bool(TRUE)
       /\ (c.in.value.t = "string" /\ low \in No) =>
            c.out.ok /\ c.out.v.value = Bool(FALSE)
       /\ (c.in.value.t = "string" /\ low \notin Yes \cup No) =>
            /\ ~c.out.ok
            /\ c.out.e = Err("Error", <<c.in.name, " is not a valid boolean value.">>)
       /\ c.in.value \in {Str(<<"T", "R", "U", "E">>), Str(<<"O", "n">>), Str(<<"1">>)}
            => c.out.v.value = Bool(TRUE)
       /\ c.in.value \in {Str(<<"F", "a", "l", "s", "e">>), Str(<<"O", "F", "F">>),
                          Str(<<"0">>)}
            => c.out.v.value = Bool(FALSE)
       /\ c.in.value \in {Str(<<>>), Str(<<"Y", "e", "s", " ">>)} => ~c.out.ok

\* asBool called with the default true on "OFF" returned false
AsBoolContractWitness ==
  /\ pc = "returned" /\ transform = Fn(Stage("asBool", Bool(TRUE)))
  /\ raw.value = Str(<<"O", "F", "F">>) /\ result = Bool(FALSE)

====
